---------------------------- MODULE Spec2Model ----------------------------
(***************************************************************************)
(* Model of stdout_example.py: the ConsoleAnimator helper, the ten demo    *)
(* routines, the background animation thread and the driver main().        *)
(*                                                                         *)
(* A text is a sequence of characters.  A printable character is a         *)
(* one-character string; the control characters and the non-ASCII glyphs   *)
(* of the source are named tokens (CR, NL, BS, ESC, CHECK, ...), each one   *)
(* character of the Python string.  The terminal is a grid of character    *)
(* cells with a cursor; every write of the program is fed to it character  *)
(* by character.                                                           *)
(*                                                                         *)
(* Two specifications are given.  SpecTerm is the fault-free run of main() *)
(* with every demo modelled statement by statement on the terminal.  Spec  *)
(* is the driver under faults: a demo other than the threaded one is the   *)
(* call that returns, raises an Exception or is interrupted, and the       *)
(* threaded demo is modelled statement by statement, interleaved with its  *)
(* background thread.                                                      *)
(***************************************************************************)
EXTENDS Integers, Sequences, FiniteSets, TLC

VARIABLES
    pc,         \* position of the main flow
    idx,        \* index in demos of the demo being run (0 before the loop)
    i,          \* loop variable of the running demo
    style,      \* demo_advanced_loading: index of the animation style
    term,       \* the terminal: cell grid and cursor
    log,        \* the writes made since the running demo was called
    events,     \* the driver's history: demo calls, raises, reports
    tstate,     \* position of the animation thread
    ti,         \* animate(): frame index i
    stop,       \* stop_event
    joined,     \* animation_thread.join() has returned
    taskWrites  \* number of writes made by the animation thread

vars == <<pc, idx, i, style, term, log, events, tstate, ti, stop, joined, taskWrites>>

-----------------------------------------------------------------------------
(* Bounds *)

\* The animation thread writes at most MaxFrames frames (it is paced by
\* time.sleep(0.2) against the main flow's time.sleep(3)).
MaxFrames == 3

\* Faults (an Exception or a KeyboardInterrupt) are raised in at most
\* MaxFaults demo calls of one run.
MaxFaults == 2

-----------------------------------------------------------------------------
(* Characters *)

CR == "\r"
NL == "\n"
BS == "BS"
ESC == "ESC"
CHECK == "U+2705"
CROSS == "U+274C"
WARN == "U+26A0"
VS16 == "U+FE0F"
FULL == "U+2588"
LIGHT == "U+2591"
BLANK == " "

Digits == <<"0", "1", "2", "3", "4", "5", "6", "7", "8", "9">>

\* str(n) for an int n >= 0
RECURSIVE Str(_)
Str(n) == IF n < 10 THEN <<Digits[n + 1]>>
          ELSE Str(n \div 10) \o <<Digits[(n % 10) + 1]>>

\* ch * n
Repeat(ch, n) == [k \in 1..n |-> ch]

Lower == <<"a", "b", "c", "d", "e", "f", "g", "h", "i", "j", "k", "l", "m",
           "n", "o", "p", "q", "r", "s", "t", "u", "v", "w", "x", "y", "z">>
Upper == <<"A", "B", "C", "D", "E", "F", "G", "H", "I", "J", "K", "L", "M",
           "N", "O", "P", "Q", "R", "S", "T", "U", "V", "W", "X", "Y", "Z">>

IsLower(ch) == \E k \in 1..26 : Lower[k] = ch
IsUpper(ch) == \E k \in 1..26 : Upper[k] = ch
ToUpper(ch) == IF IsLower(ch) THEN Upper[CHOOSE k \in 1..26 : Lower[k] = ch] ELSE ch
ToLower(ch) == IF IsUpper(ch) THEN Lower[CHOOSE k \in 1..26 : Upper[k] = ch] ELSE ch

\* str.title(): a letter that follows a letter is lowercased, any other
\* letter is uppercased.
Title(s) ==
    [k \in 1..Len(s) |->
        IF k > 1 /\ (IsLower(s[k - 1]) \/ IsUpper(s[k - 1]))
        THEN ToLower(s[k]) ELSE ToUpper(s[k])]

-----------------------------------------------------------------------------
(* The terminal *)

\* A terminal is [screen, row, col, csi]: screen is the sequence of rows, a
\* row the sequence of its cells, (row, col) the cursor, both from 1, and csi
\* the parameter read so far of a control sequence ESC [ n ..., -1 outside
\* one.  Rows are taken to be wide enough that no line of the program wraps.
EmptyTerm == [screen |-> << <<>> >>, row |-> 1, col |-> 1, csi |-> -1]

\* rows 1..n exist
WithRows(screen, n) ==
    IF Len(screen) >= n THEN screen
    ELSE screen \o [k \in 1..(n - Len(screen)) |-> <<>>]

\* a printable character: stored at the cursor, which advances
PutChar(t, ch) ==
    LET line == t.screen[t.row]
        padded == IF Len(line) >= t.col THEN line
                  ELSE line \o Repeat(BLANK, t.col - Len(line))
    IN [t EXCEPT !.screen[t.row] = [padded EXCEPT ![t.col] = ch],
                 !.col = t.col + 1]

LineFeed(t) ==
    [t EXCEPT !.screen = WithRows(t.screen, t.row + 1), !.row = t.row + 1, !.col = 1]

CarriageReturn(t) == [t EXCEPT !.col = 1]

\* backspace moves the cursor left and stops at the first column
Backspace(t) == [t EXCEPT !.col = IF t.col > 1 THEN t.col - 1 ELSE 1]

\* ESC [ n A
CursorUp(t, n) == [t EXCEPT !.row = IF t.row - n >= 1 THEN t.row - n ELSE 1]

\* ESC [ n B
CursorDown(t, n) ==
    [t EXCEPT !.screen = WithRows(t.screen, t.row + n), !.row = t.row + n]

IsDigit(ch) == \E k \in 1..10 : Digits[k] = ch
DigitValue(ch) == (CHOOSE k \in 1..10 : Digits[k] = ch) - 1

\* the terminal after one character
FeedChar(t, ch) ==
    IF t.csi >= 0 THEN
        IF ch = "[" THEN t
        ELSE IF IsDigit(ch) THEN [t EXCEPT !.csi = 10 * t.csi + DigitValue(ch)]
        ELSE IF ch = "A" THEN [CursorUp(t, t.csi) EXCEPT !.csi = -1]
        ELSE IF ch = "B" THEN [CursorDown(t, t.csi) EXCEPT !.csi = -1]
        ELSE [t EXCEPT !.csi = -1]
    ELSE IF ch = ESC THEN [t EXCEPT !.csi = 0]
    ELSE IF ch = CR THEN CarriageReturn(t)
    ELSE IF ch = NL THEN LineFeed(t)
    ELSE IF ch = BS THEN Backspace(t)
    ELSE PutChar(t, ch)

\* the terminal after the characters text[lo..hi], in order.  (The test on
\* left.row always holds: with it TLC evaluates the first half before it
\* descends into the second.)
RECURSIVE FeedRange(_, _, _, _)
FeedRange(t, text, lo, hi) ==
    IF lo > hi THEN t
    ELSE IF lo = hi THEN FeedChar(t, text[lo])
    ELSE LET mid == (lo + hi) \div 2
             left == FeedRange(t, text, lo, mid)
         IN IF left.row >= 1 THEN FeedRange(left, text, mid + 1, hi) ELSE left

Feed(t, text) == FeedRange(t, text, 1, Len(text))

\* the terminal after the texts, in order (the test on next.row always holds)
RECURSIVE FeedAll(_, _)
FeedAll(t, texts) ==
    IF texts = <<>> THEN t
    ELSE LET next == Feed(t, Head(texts))
         IN IF next.row >= 1 THEN FeedAll(next, Tail(texts)) ELSE next

\* the column of the last cell of a row that is not blank (0 if none)
Extent(line) ==
    IF \A k \in 1..Len(line) : line[k] = BLANK THEN 0
    ELSE CHOOSE k \in 1..Len(line) :
            /\ line[k] # BLANK
            /\ \A j \in (k + 1)..Len(line) : line[j] = BLANK

\* what a row shows: its cells up to the last one that is not blank
Visible(line) == SubSeq(line, 1, Extent(line))

CurrentLine(t) == t.screen[t.row]

-----------------------------------------------------------------------------
(* Python float arithmetic (IEEE 754 binary64, round to nearest, ties to   *)
(* even).  A float >= 0 is [bits, exp]: bits is the significand, most       *)
(* significant bit first, and the value is bits * 2^exp; zero has no bits. *)

Precision == 53

RECURSIVE NatToBits(_)
NatToBits(n) == IF n = 0 THEN <<>> ELSE NatToBits(n \div 2) \o <<n % 2>>

RECURSIVE BitsToNat(_)
BitsToNat(b) ==
    IF b = <<>> THEN 0 ELSE 2 * BitsToNat(SubSeq(b, 1, Len(b) - 1)) + b[Len(b)]

RECURSIVE StripZeros(_)
StripZeros(b) == IF b # <<>> /\ Head(b) = 0 THEN StripZeros(Tail(b)) ELSE b

\* b + 1
RECURSIVE IncBits(_)
IncBits(b) ==
    IF b = <<>> THEN <<1>>
    ELSE IF b[Len(b)] = 0 THEN SubSeq(b, 1, Len(b) - 1) \o <<1>>
    ELSE IncBits(SubSeq(b, 1, Len(b) - 1)) \o <<0>>

\* b * w + carry, for a small w
RECURSIVE MulBits(_, _, _)
MulBits(b, w, carry) ==
    IF b = <<>> THEN NatToBits(carry)
    ELSE LET d == b[Len(b)] * w + carry
         IN IF d % 2 = 0 THEN MulBits(SubSeq(b, 1, Len(b) - 1), w, d \div 2) \o <<0>>
            ELSE MulBits(SubSeq(b, 1, Len(b) - 1), w, d \div 2) \o <<1>>

FloatZero == [bits |-> <<>>, exp |-> 0]

\* The float nearest to b * 2^e + (a positive amount below the last bit of b
\* iff sticky), b with no leading zero.
RoundToFloat(b, e, sticky) ==
    IF b = <<>> THEN FloatZero
    ELSE IF Len(b) <= Precision
    THEN [bits |-> b \o Repeat(0, Precision - Len(b)), exp |-> e - (Precision - Len(b))]
    ELSE LET kept == SubSeq(b, 1, Precision)
             guard == b[Precision + 1]
             rest == sticky \/ \E k \in (Precision + 2)..Len(b) : b[k] = 1
             up == guard = 1 /\ (rest \/ kept[Precision] = 1)
             r == IF up THEN IncBits(kept) ELSE kept
             e1 == e + (Len(b) - Precision)
         IN IF Len(r) > Precision
            THEN [bits |-> SubSeq(r, 1, Precision), exp |-> e1 + 1]
            ELSE [bits |-> r, exp |-> e1]

\* float(n) for an int n >= 0 below 2^53
IntToFloat(n) == RoundToFloat(NatToBits(n), 0, FALSE)

\* The quotient r / b continued below the bits acc (value acc * 2^e so far)
\* until Precision + 1 significant bits are known.
RECURSIVE DivBits(_, _, _, _)
DivBits(r, b, acc, e) ==
    IF Len(acc) > Precision THEN [bits |-> acc, exp |-> e, sticky |-> r # 0]
    ELSE LET r2 == 2 * r
             bit == IF r2 >= b THEN 1 ELSE 0
         IN DivBits(r2 - bit * b, b,
                    IF acc = <<>> /\ bit = 0 THEN <<>> ELSE acc \o <<bit>>, e - 1)

\* a / b for ints a >= 0, b > 0 (int true division, correctly rounded)
TrueDiv(a, b) ==
    IF a = 0 THEN FloatZero
    ELSE LET q == DivBits(a % b, b, NatToBits(a \div b), 0)
         IN RoundToFloat(q.bits, q.exp, q.sticky)

\* w * f for an int w >= 0 (exactly a float) and a float f
MulIntFloat(w, f) ==
    IF f.bits = <<>> \/ w = 0 THEN FloatZero
    ELSE RoundToFloat(StripZeros(MulBits(f.bits, w, 0)), f.exp, FALSE)

\* 2^n
RECURSIVE Pow2(_)
Pow2(n) == IF n = 0 THEN 1 ELSE 2 * Pow2(n - 1)

\* int(f): truncation
IntOf(f) ==
    IF f.bits = <<>> THEN 0
    ELSE IF f.exp >= 0 THEN BitsToNat(f.bits) * Pow2(f.exp)
    ELSE IF -f.exp >= Len(f.bits) THEN 0
    ELSE BitsToNat(SubSeq(f.bits, 1, Len(f.bits) + f.exp))

-----------------------------------------------------------------------------
(* ConsoleAnimator and print: the text each call writes to sys.stdout *)

\* ConsoleAnimator.write_with_flush(text)
WriteWithFlush(text) == text

\* the number of spaces clear_line writes
ClearWidth == 80

\* a clear_line that writes too few spaces
ClearLineText_Short == <<CR>> \o Repeat(BLANK, 8) \o <<CR>>

\* ConsoleAnimator.clear_line()
ClearLineText == <<CR>> \o Repeat(BLANK, ClearWidth) \o <<CR>>

\* ConsoleAnimator.move_cursor_up(lines)
MoveCursorUp(lines) == <<ESC, "[">> \o Str(lines) \o <<"A">>

\* ConsoleAnimator.move_cursor_down(lines)
MoveCursorDown(lines) == <<ESC, "[">> \o Str(lines) \o <<"B">>

\* print(text)
PyPrint(text) == text \o <<NL>>

\* The writes texts, made in this order by the flow `by` ("main" or "task"),
\* reach the terminal and are recorded.
Out(by, texts) ==
    /\ term' = FeedAll(term, texts)
    /\ log' = log \o [k \in 1..Len(texts) |-> [by |-> by, text |-> texts[k]]]

-----------------------------------------------------------------------------
(* main(): the driver *)

demos == <<"demo_basic_write", "demo_flush_importance", "demo_carriage_return",
           "demo_loading_animation", "demo_progress_bar", "demo_multi_line_output",
           "demo_backspace", "demo_threaded_animation", "demo_advanced_loading",
           "demo_error_handling">>

NDemos == Len(demos)

Running(name) == pc = "call" /\ demos[idx] = name

\* a demo returns to the driver's loop; its locals are discarded
Return ==
    /\ pc' = "loop"
    /\ i' = 0
    /\ style' = 0
    /\ events' = Append(events, <<"return", idx>>)

Init ==
    /\ pc = "start"
    /\ idx = 0
    /\ i = 0
    /\ style = 0
    /\ term = EmptyTerm
    /\ log = <<>>
    /\ events = <<>>
    /\ tstate = "none"
    /\ ti = 0
    /\ stop = FALSE
    /\ joined = FALSE
    /\ taskWrites = 0

MainBanner ==
    /\ pc = "start"
    /\ Out("main", <<PyPrint(<<"C", "o", "n", "s", "o", "l", "e", " ", "O", "u", "t", "p", "u", "t", " ", "a", "n", "d", " ", "A", "n", "i", "m", "a", "t", "i", "o", "n", " ", "D", "e", "m", "o">>),
                     PyPrint(Repeat("=", 50)),
                     PyPrint(<<"D", "e", "m", "o", "n", "s", "t", "r", "a", "t", "i", "n", "g", " ", "s", "y", "s", ".", "s", "t", "d", "o", "u", "t", ".", "w", "r", "i", "t", "e", "(", ")", " ", "a", "n", "d", " ", "s", "y", "s", ".", "s", "t", "d", "o", "u", "t", ".", "f", "l", "u", "s", "h", "(", ")", " ", "t", "e", "c", "h", "n", "i", "q", "u", "e", "s">>),
                     PyPrint(Repeat("=", 50))>>)
    /\ pc' = "loop"
    /\ UNCHANGED <<idx, i, style, events, tstate, ti, stop, joined, taskWrites>>

\* for demo in demos: try: demo()
ForNext ==
    /\ pc = "loop"
    /\ idx < NDemos
    /\ idx' = idx + 1
    /\ pc' = "call"
    /\ log' = <<>>
    /\ events' = Append(events, <<"call", idx + 1>>)
    /\ UNCHANGED <<i, style, term, tstate, ti, stop, joined, taskWrites>>

\* the list is exhausted
ForExit ==
    /\ pc = "loop"
    /\ idx = NDemos
    /\ pc' = "final"
    /\ UNCHANGED <<idx, i, style, term, log, events, tstate, ti, stop, joined, taskWrites>>

\* a handler that goes on with the next demo
ExceptKeyboardInterrupt_Continue ==
    /\ pc = "except_interrupt"
    /\ Out("main", <<PyPrint(<<NL, NL, WARN, VS16, " ", " ", "D", "e", "m", "o", " ", "i", "n", "t", "e", "r", "r", "u", "p", "t", "e", "d", " ", "b", "y", " ", "u", "s", "e", "r", ".">>)>>)
    /\ events' = Append(events, <<"notice", idx>>)
    /\ pc' = "loop"
    /\ UNCHANGED <<idx, i, style, tstate, ti, stop, joined, taskWrites>>

\* except KeyboardInterrupt: print the notice; break
ExceptKeyboardInterrupt ==
    /\ pc = "except_interrupt"
    /\ Out("main", <<PyPrint(<<NL, NL, WARN, VS16, " ", " ", "D", "e", "m", "o", " ", "i", "n", "t", "e", "r", "r", "u", "p", "t", "e", "d", " ", "b", "y", " ", "u", "s", "e", "r", ".">>)>>)
    /\ events' = Append(events, <<"notice", idx>>)
    /\ pc' = "final"
    /\ UNCHANGED <<idx, i, style, tstate, ti, stop, joined, taskWrites>>

\* a handler that leaves the loop
ExceptException_Break ==
    /\ pc = "except_exception"
    /\ Out("main", <<PyPrint(<<NL, CROSS, " ", "E", "r", "r", "o", "r", " ", "i", "n", " ">> \o <<demos[idx]>> \o <<":", " ">> \o <<"{e}">>)>>)
    /\ events' = Append(events, <<"report", idx>>)
    /\ pc' = "final"
    /\ UNCHANGED <<idx, i, style, tstate, ti, stop, joined, taskWrites>>

\* except Exception as e: print the report; continue.  The demo's name and
\* the error's message stand as one token each.
ExceptException ==
    /\ pc = "except_exception"
    /\ Out("main", <<PyPrint(<<NL, CROSS, " ", "E", "r", "r", "o", "r", " ", "i", "n", " ">> \o <<demos[idx]>> \o <<":", " ">> \o <<"{e}">>)>>)
    /\ events' = Append(events, <<"report", idx>>)
    /\ pc' = "loop"
    /\ UNCHANGED <<idx, i, style, tstate, ti, stop, joined, taskWrites>>

FinalBanner ==
    /\ pc = "final"
    /\ Out("main", <<PyPrint(<<NL>> \o Repeat("=", 50)),
                     PyPrint(<<"A", "l", "l", " ", "d", "e", "m", "o", "s", " ", "c", "o", "m", "p", "l", "e", "t", "e", "d", "!">>),
                     PyPrint(Repeat("=", 50))>>)
    /\ events' = Append(events, <<"final", idx>>)
    /\ pc' = "done"
    /\ UNCHANGED <<idx, i, style, tstate, ti, stop, joined, taskWrites>>

-----------------------------------------------------------------------------
(* demo_basic_write *)

DemoBasicWrite ==
    /\ Running("demo_basic_write")
    /\ Out("main", <<PyPrint(<<NL, "=", "=", "=", " ", "B", "a", "s", "i", "c", " ", "W", "r", "i", "t", "e", " ", "D", "e", "m", "o", " ", "=", "=", "=">>),
                     PyPrint(<<"L", "i", "n", "e", " ", "1", " ", "w", "i", "t", "h", " ", "p", "r", "i", "n", "t">>),
                     PyPrint(<<"L", "i", "n", "e", " ", "2", " ", "w", "i", "t", "h", " ", "p", "r", "i", "n", "t">>),
                     WriteWithFlush(<<"L", "i", "n", "e", " ", "1", " ", "w", "i", "t", "h", " ", "s", "t", "d", "o", "u", "t", ".", "w", "r", "i", "t", "e">>),
                     WriteWithFlush(<<"L", "i", "n", "e", " ", "2", " ", "w", "i", "t", "h", " ", "s", "t", "d", "o", "u", "t", ".", "w", "r", "i", "t", "e">>),
                     WriteWithFlush(<<NL>>),
                     PyPrint(<<"N", "o", "w", " ", "w", "e", "'", "r", "e", " ", "o", "n", " ", "a", " ", "n", "e", "w", " ", "l", "i", "n", "e">>)>>)
    /\ Return
    /\ UNCHANGED <<idx, tstate, ti, stop, joined, taskWrites>>

-----------------------------------------------------------------------------
(* demo_flush_importance.  The stream is taken to deliver every write in     *)
(* order; when an unflushed write becomes visible is not modelled.          *)

ProcessingText(n) == <<"P", "r", "o", "c", "e", "s", "s", "i", "n", "g", " ">> \o Str(n) \o <<".", ".", ".", " ">>

FlushBanner ==
    /\ Running("demo_flush_importance")
    /\ Out("main", <<PyPrint(<<NL, "=", "=", "=", " ", "F", "l", "u", "s", "h", " ", "I", "m", "p", "o", "r", "t", "a", "n", "c", "e", " ", "D", "e", "m", "o", " ", "=", "=", "=">>),
                     PyPrint(<<"W", "i", "t", "h", "o", "u", "t", " ", "f", "l", "u", "s", "h", " ", "(", "m", "a", "y", " ", "n", "o", "t", " ", "s", "h", "o", "w", " ", "i", "m", "m", "e", "d", "i", "a", "t", "e", "l", "y", ")", ":">>)>>)
    /\ i' = 0
    /\ pc' = "flush_without"
    /\ UNCHANGED <<idx, style, events, tstate, ti, stop, joined, taskWrites>>

\* for i in range(5): sys.stdout.write(...)
FlushWithout ==
    /\ pc = "flush_without"
    /\ i < 5
    /\ Out("main", <<ProcessingText(i)>>)
    /\ i' = i + 1
    /\ UNCHANGED <<pc, idx, style, events, tstate, ti, stop, joined, taskWrites>>

FlushBetween ==
    /\ pc = "flush_without"
    /\ i = 5
    /\ Out("main", <<PyPrint(<<NL, NL, "W", "i", "t", "h", " ", "f", "l", "u", "s", "h", " ", "(", "s", "h", "o", "w", "s", " ", "i", "m", "m", "e", "d", "i", "a", "t", "e", "l", "y", ")", ":">>)>>)
    /\ i' = 0
    /\ pc' = "flush_with"
    /\ UNCHANGED <<idx, style, events, tstate, ti, stop, joined, taskWrites>>

\* for i in range(5): ConsoleAnimator.write_with_flush(...)
FlushWith ==
    /\ pc = "flush_with"
    /\ i < 5
    /\ Out("main", <<WriteWithFlush(ProcessingText(i))>>)
    /\ i' = i + 1
    /\ UNCHANGED <<pc, idx, style, events, tstate, ti, stop, joined, taskWrites>>

FlushDone ==
    /\ pc = "flush_with"
    /\ i = 5
    /\ Out("main", <<PyPrint(<<NL, "D", "o", "n", "e", "!">>)>>)
    /\ Return
    /\ UNCHANGED <<idx, tstate, ti, stop, joined, taskWrites>>

-----------------------------------------------------------------------------
(* demo_carriage_return *)

CountdownText(n) == <<CR, "C", "o", "u", "n", "t", "d", "o", "w", "n", ":", " ">> \o Str(n)

CountdownFinal == <<CR, "C", "o", "u", "n", "t", "d", "o", "w", "n", ":", " ", "B", "l", "a", "s", "t", " ", "o", "f", "f", "!", " ", " ", " ", " ", " ", NL>>

CountdownBanner ==
    /\ Running("demo_carriage_return")
    /\ Out("main", <<PyPrint(<<NL, "=", "=", "=", " ", "C", "a", "r", "r", "i", "a", "g", "e", " ", "R", "e", "t", "u", "r", "n", " ", "D", "e", "m", "o", " ", "=", "=", "=">>),
                     PyPrint(<<"C", "o", "u", "n", "t", "i", "n", "g", " ", "d", "o", "w", "n", " ", "w", "i", "t", "h", " ", "c", "a", "r", "r", "i", "a", "g", "e", " ", "r", "e", "t", "u", "r", "n", ":">>)>>)
    /\ i' = 10
    /\ pc' = "countdown"
    /\ UNCHANGED <<idx, style, events, tstate, ti, stop, joined, taskWrites>>

\* for i in range(10, 0, -1)
CountdownStep ==
    /\ pc = "countdown"
    /\ i > 0
    /\ Out("main", <<WriteWithFlush(CountdownText(i))>>)
    /\ i' = i - 1
    /\ UNCHANGED <<pc, idx, style, events, tstate, ti, stop, joined, taskWrites>>

CountdownDone ==
    /\ pc = "countdown"
    /\ i = 0
    /\ Out("main", <<WriteWithFlush(CountdownFinal)>>)
    /\ Return
    /\ UNCHANGED <<idx, tstate, ti, stop, joined, taskWrites>>

-----------------------------------------------------------------------------
(* demo_loading_animation *)

animation_chars == <<"U+280B", "U+2819", "U+2839", "U+2838", "U+283C",
                     "U+2834", "U+2826", "U+2827", "U+2807", "U+280F">>

\* chars[n % len(chars)]
FrameAt(chars, n) == chars[(n % Len(chars)) + 1]

LoadingText(n) ==
    <<CR, FrameAt(animation_chars, n)>> \o <<" ", "L", "o", "a", "d", "i", "n", "g", ".", ".", ".", " ">> \o Str(n + 1) \o <<"/", "2", "0">>

LoadingFinal == <<CR, CHECK, " ", "L", "o", "a", "d", "i", "n", "g", " ", "c", "o", "m", "p", "l", "e", "t", "e", "!", " ", " ", " ", " ", " ", NL>>

LoadingBanner ==
    /\ Running("demo_loading_animation")
    /\ Out("main", <<PyPrint(<<NL, "=", "=", "=", " ", "L", "o", "a", "d", "i", "n", "g", " ", "A", "n", "i", "m", "a", "t", "i", "o", "n", " ", "D", "e", "m", "o", " ", "=", "=", "=">>),
                     PyPrint(<<"L", "o", "a", "d", "i", "n", "g", " ", "w", "i", "t", "h", " ", "a", "n", "i", "m", "a", "t", "i", "o", "n", ":">>)>>)
    /\ i' = 0
    /\ pc' = "loading"
    /\ UNCHANGED <<idx, style, events, tstate, ti, stop, joined, taskWrites>>

\* for i in range(20)
LoadingStep ==
    /\ pc = "loading"
    /\ i < 20
    /\ Out("main", <<WriteWithFlush(LoadingText(i))>>)
    /\ i' = i + 1
    /\ UNCHANGED <<pc, idx, style, events, tstate, ti, stop, joined, taskWrites>>

LoadingDone ==
    /\ pc = "loading"
    /\ i = 20
    /\ Out("main", <<WriteWithFlush(LoadingFinal)>>)
    /\ Return
    /\ UNCHANGED <<idx, tstate, ti, stop, joined, taskWrites>>

-----------------------------------------------------------------------------
(* demo_progress_bar *)

total == 50

bar_width == 30

\* progress = i / total
Progress_FloorDiv(n) == IntToFloat(n \div total)

Progress(n) == TrueDiv(n, total)

\* filled_width = int(bar_width * progress)
FilledWidth(n) == IntOf(MulIntFloat(bar_width, Progress(n)))

\* bar = FULL * filled_width + LIGHT * (bar_width - filled_width)
Bar(n) == Repeat(FULL, FilledWidth(n)) \o Repeat(LIGHT, bar_width - FilledWidth(n))

\* percentage = int(progress * 100)
Percentage(n) == IntOf(MulIntFloat(100, Progress(n)))

ProgressText(n) ==
    <<CR, "P", "r", "o", "g", "r", "e", "s", "s", ":", " ", "[">> \o Bar(n) \o <<"]", " ">> \o Str(Percentage(n)) \o <<"%", " ", "(">>
        \o Str(n) \o <<"/">> \o Str(total) \o <<")">>

ProgressBanner ==
    /\ Running("demo_progress_bar")
    /\ Out("main", <<PyPrint(<<NL, "=", "=", "=", " ", "P", "r", "o", "g", "r", "e", "s", "s", " ", "B", "a", "r", " ", "D", "e", "m", "o", " ", "=", "=", "=">>),
                     PyPrint(<<"P", "r", "o", "c", "e", "s", "s", "i", "n", "g", " ", "w", "i", "t", "h", " ", "p", "r", "o", "g", "r", "e", "s", "s", " ", "b", "a", "r", ":">>)>>)
    /\ i' = 0
    /\ pc' = "progress"
    /\ UNCHANGED <<idx, style, events, tstate, ti, stop, joined, taskWrites>>

\* for i in range(total + 1)
ProgressStep ==
    /\ pc = "progress"
    /\ i < total + 1
    /\ Out("main", <<WriteWithFlush(ProgressText(i))>>)
    /\ i' = i + 1
    /\ UNCHANGED <<pc, idx, style, events, tstate, ti, stop, joined, taskWrites>>

ProgressDone ==
    /\ pc = "progress"
    /\ i = total + 1
    /\ Out("main", <<PyPrint(<<NL, CHECK, " ", "P", "r", "o", "c", "e", "s", "s", "i", "n", "g", " ", "c", "o", "m", "p", "l", "e", "t", "e", "!">>)>>)
    /\ Return
    /\ UNCHANGED <<idx, tstate, ti, stop, joined, taskWrites>>

-----------------------------------------------------------------------------
(* demo_multi_line_output *)

MultiBanner ==
    /\ Running("demo_multi_line_output")
    /\ Out("main", <<PyPrint(<<NL, "=", "=", "=", " ", "M", "u", "l", "t", "i", "-", "l", "i", "n", "e", " ", "O", "u", "t", "p", "u", "t", " ", "D", "e", "m", "o", " ", "=", "=", "=">>),
                     PyPrint(<<"I", "n", "i", "t", "i", "a", "l", " ", "s", "t", "a", "t", "e", ":">>),
                     PyPrint(<<"L", "i", "n", "e", " ", "1", ":", " ", "R", "e", "a", "d", "y">>),
                     PyPrint(<<"L", "i", "n", "e", " ", "2", ":", " ", "R", "e", "a", "d", "y">>),
                     PyPrint(<<"L", "i", "n", "e", " ", "3", ":", " ", "R", "e", "a", "d", "y">>)>>)
    /\ pc' = "multi_update"
    /\ UNCHANGED <<idx, i, style, events, tstate, ti, stop, joined, taskWrites>>

\* the three updates in place
MultiUpdate ==
    /\ pc = "multi_update"
    /\ Out("main", <<MoveCursorUp(3),
                     WriteWithFlush(<<CR, "L", "i", "n", "e", " ", "1", ":", " ", "P", "r", "o", "c", "e", "s", "s", "i", "n", "g", ".", ".", ".">>),
                     MoveCursorDown(1),
                     WriteWithFlush(<<CR, "L", "i", "n", "e", " ", "2", ":", " ", "P", "r", "o", "c", "e", "s", "s", "i", "n", "g", ".", ".", ".">>),
                     MoveCursorDown(1),
                     WriteWithFlush(<<CR, "L", "i", "n", "e", " ", "3", ":", " ", "P", "r", "o", "c", "e", "s", "s", "i", "n", "g", ".", ".", ".">>)>>)
    /\ pc' = "multi_done"
    /\ UNCHANGED <<idx, i, style, events, tstate, ti, stop, joined, taskWrites>>

MultiDone ==
    /\ pc = "multi_done"
    /\ Out("main", <<MoveCursorDown(1),
                     PyPrint(<<CR, CHECK, " ", "A", "l", "l", " ", "l", "i", "n", "e", "s", " ", "p", "r", "o", "c", "e", "s", "s", "e", "d", "!">>)>>)
    /\ Return
    /\ UNCHANGED <<idx, tstate, ti, stop, joined, taskWrites>>

-----------------------------------------------------------------------------
(* demo_backspace *)

message == <<"H", "e", "l", "l", "o", ",", " ", "W", "o", "r", "l", "d", "!">>

EraseText == <<BS, " ", BS>>

BackspaceBanner ==
    /\ Running("demo_backspace")
    /\ Out("main", <<PyPrint(<<NL, "=", "=", "=", " ", "B", "a", "c", "k", "s", "p", "a", "c", "e", " ", "D", "e", "m", "o", " ", "=", "=", "=">>),
                     PyPrint(<<"T", "y", "p", "i", "n", "g", " ", "e", "f", "f", "e", "c", "t", ":">>)>>)
    /\ i' = 0
    /\ pc' = "typing"
    /\ UNCHANGED <<idx, style, events, tstate, ti, stop, joined, taskWrites>>

\* for char in message (i counts the characters typed)
TypeChar ==
    /\ pc = "typing"
    /\ i < Len(message)
    /\ Out("main", <<WriteWithFlush(<<message[i + 1]>>)>>)
    /\ i' = i + 1
    /\ UNCHANGED <<pc, idx, style, events, tstate, ti, stop, joined, taskWrites>>

BackspaceBetween ==
    /\ pc = "typing"
    /\ i = Len(message)
    /\ Out("main", <<PyPrint(<<NL>>), PyPrint(<<"D", "e", "l", "e", "t", "i", "n", "g", " ", "e", "f", "f", "e", "c", "t", ":">>)>>)
    /\ i' = Len(message)
    /\ pc' = "erasing"
    /\ UNCHANGED <<idx, style, events, tstate, ti, stop, joined, taskWrites>>

\* for i in range(len(message), 0, -1)
EraseChar ==
    /\ pc = "erasing"
    /\ i > 0
    /\ Out("main", <<WriteWithFlush(EraseText)>>)
    /\ i' = i - 1
    /\ UNCHANGED <<pc, idx, style, events, tstate, ti, stop, joined, taskWrites>>

BackspaceDone ==
    /\ pc = "erasing"
    /\ i = 0
    /\ Out("main", <<PyPrint(<<"D", "o", "n", "e", "!">>)>>)
    /\ Return
    /\ UNCHANGED <<idx, tstate, ti, stop, joined, taskWrites>>

-----------------------------------------------------------------------------
(* demo_threaded_animation and its thread animate(stop_event) *)

chars == <<"|", "/", "-", "\\">>

AnimateText(n) == <<CR, chars[n + 1]>> \o <<" ", "W", "o", "r", "k", "i", "n", "g", ".", ".", ".">>

\* while not stop_event.is_set(): the flag is clear; the frame count is capped
AnimateCheck ==
    /\ tstate = "check"
    /\ ~stop
    /\ taskWrites < MaxFrames
    /\ tstate' = "write"
    /\ UNCHANGED <<pc, idx, i, style, term, log, events, ti, stop, joined, taskWrites>>

\* write the frame; i = (i + 1) % len(chars); sleep
AnimateWrite ==
    /\ tstate = "write"
    /\ Out("task", <<WriteWithFlush(AnimateText(ti))>>)
    /\ ti' = (ti + 1) % Len(chars)
    /\ taskWrites' = taskWrites + 1
    /\ tstate' = "check"
    /\ UNCHANGED <<pc, idx, i, style, events, stop, joined>>

\* while not stop_event.is_set(): the flag is set, the thread ends
AnimateExit ==
    /\ tstate = "check"
    /\ stop
    /\ tstate' = "dead"
    /\ UNCHANGED <<pc, idx, i, style, term, log, events, ti, stop, joined, taskWrites>>

ThreadedBanner ==
    /\ Running("demo_threaded_animation")
    /\ Out("main", <<PyPrint(<<NL, "=", "=", "=", " ", "T", "h", "r", "e", "a", "d", "e", "d", " ", "A", "n", "i", "m", "a", "t", "i", "o", "n", " ", "D", "e", "m", "o", " ", "=", "=", "=">>)>>)
    /\ pc' = "thread_start"
    /\ UNCHANGED <<idx, i, style, events, tstate, ti, stop, joined, taskWrites>>

\* stop_event = threading.Event(); animation_thread.start()
ThreadStart ==
    /\ pc = "thread_start"
    /\ stop' = FALSE
    /\ tstate' = "check"
    /\ ti' = 0
    /\ pc' = "work_print"
    /\ UNCHANGED <<idx, i, style, term, log, events, joined, taskWrites>>

\* print("Starting work..."): print writes the text, then the line end
WorkPrint ==
    /\ pc = "work_print"
    /\ Out("main", <<<<"S", "t", "a", "r", "t", "i", "n", "g", " ", "w", "o", "r", "k", ".", ".", ".">>>>)
    /\ pc' = "work_print_end"
    /\ UNCHANGED <<idx, i, style, events, tstate, ti, stop, joined, taskWrites>>

WorkPrintEnd ==
    /\ pc = "work_print_end"
    /\ Out("main", <<<<NL>>>>)
    /\ pc' = "work_sleep"
    /\ UNCHANGED <<idx, i, style, events, tstate, ti, stop, joined, taskWrites>>

\* time.sleep(3)
WorkSleep ==
    /\ pc = "work_sleep"
    /\ pc' = "stop_set"
    /\ UNCHANGED <<idx, i, style, term, log, events, tstate, ti, stop, joined, taskWrites>>

\* stop_event.set()
StopSet ==
    /\ pc = "stop_set"
    /\ stop' = TRUE
    /\ pc' = "join"
    /\ UNCHANGED <<idx, i, style, term, log, events, tstate, ti, joined, taskWrites>>

\* a join that does not wait for the thread to end
Join_NoWait ==
    /\ pc = "join"
    /\ joined' = TRUE
    /\ pc' = "thread_clear"
    /\ UNCHANGED <<idx, i, style, term, log, events, tstate, ti, stop, taskWrites>>

\* animation_thread.join(): returns once the thread has ended
Join ==
    /\ pc = "join"
    /\ tstate = "dead"
    /\ joined' = TRUE
    /\ pc' = "thread_clear"
    /\ UNCHANGED <<idx, i, style, term, log, events, tstate, ti, stop, taskWrites>>

ThreadedClear ==
    /\ pc = "thread_clear"
    /\ Out("main", <<ClearLineText>>)
    /\ pc' = "thread_done"
    /\ UNCHANGED <<idx, i, style, events, tstate, ti, stop, joined, taskWrites>>

ThreadedDone ==
    /\ pc = "thread_done"
    /\ Out("main", <<PyPrint(<<CHECK, " ", "W", "o", "r", "k", " ", "c", "o", "m", "p", "l", "e", "t", "e", "!">>)>>)
    /\ Return
    /\ UNCHANGED <<idx, tstate, ti, stop, joined, taskWrites>>

ThreadedPcs == {"thread_start", "work_print", "work_print_end", "work_sleep",
                "stop_set", "join", "thread_clear", "thread_done"}

-----------------------------------------------------------------------------
(* demo_advanced_loading *)

animations ==
    << [name |-> <<"d", "o", "t", "s">>,
        chars |-> <<"U+280B", "U+2819", "U+2839", "U+2838", "U+283C",
                    "U+2834", "U+2826", "U+2827", "U+2807", "U+280F">>],
       [name |-> <<"s", "p", "i", "n", "n", "e", "r">>, chars |-> <<"|", "/", "-", "\\">>],
       [name |-> <<"b", "a", "r", "s">>, chars |-> <<"U+258C", "U+2580", "U+2590", "U+2584">>],
       [name |-> <<"c", "i", "r", "c", "l", "e", "s">>, chars |-> <<"U+25D0", "U+25D3", "U+25D1", "U+25D2">>] >>

StyleText(s, n) ==
    <<CR, FrameAt(animations[s].chars, n), " ">> \o animations[s].name \o <<" ", "l", "o", "a", "d", "i", "n", "g", ".", ".", ".">>

StyleFinal(s) == <<CR, CHECK, " ">> \o Title(animations[s].name) \o <<" ", "c", "o", "m", "p", "l", "e", "t", "e", "!", " ", " ", " ", " ", " ", NL>>

AdvancedBanner ==
    /\ Running("demo_advanced_loading")
    /\ Out("main", <<PyPrint(<<NL, "=", "=", "=", " ", "A", "d", "v", "a", "n", "c", "e", "d", " ", "L", "o", "a", "d", "i", "n", "g", " ", "D", "e", "m", "o", " ", "=", "=", "=">>)>>)
    /\ style' = 1
    /\ pc' = "styles"
    /\ UNCHANGED <<idx, i, events, tstate, ti, stop, joined, taskWrites>>

\* for style_name, chars in animations.items()
StyleBegin ==
    /\ pc = "styles"
    /\ style <= Len(animations)
    /\ Out("main", <<PyPrint(<<NL>> \o Title(animations[style].name) \o <<" ", "a", "n", "i", "m", "a", "t", "i", "o", "n", ":">>)>>)
    /\ i' = 0
    /\ pc' = "style_loop"
    /\ UNCHANGED <<idx, style, events, tstate, ti, stop, joined, taskWrites>>

\* for i in range(10)
StyleStep ==
    /\ pc = "style_loop"
    /\ i < 10
    /\ Out("main", <<WriteWithFlush(StyleText(style, i))>>)
    /\ i' = i + 1
    /\ UNCHANGED <<pc, idx, style, events, tstate, ti, stop, joined, taskWrites>>

StyleDone ==
    /\ pc = "style_loop"
    /\ i = 10
    /\ Out("main", <<WriteWithFlush(StyleFinal(style))>>)
    /\ style' = style + 1
    /\ pc' = "styles"
    /\ UNCHANGED <<idx, i, events, tstate, ti, stop, joined, taskWrites>>

AdvancedDone ==
    /\ pc = "styles"
    /\ style > Len(animations)
    /\ Return
    /\ UNCHANGED <<idx, term, log, tstate, ti, stop, joined, taskWrites>>

-----------------------------------------------------------------------------
(* demo_error_handling *)

StepText(n) == <<CR, "P", "r", "o", "c", "e", "s", "s", "i", "n", "g", " ", "s", "t", "e", "p", " ">> \o Str(n + 1) \o <<"/", "5", ".", ".", ".">>

SuccessText == <<CR, CHECK, " ", "O", "p", "e", "r", "a", "t", "i", "o", "n", " ", "c", "o", "m", "p", "l", "e", "t", "e", "d", " ", "s", "u", "c", "c", "e", "s", "s", "f", "u", "l", "l", "y", "!", NL>>

ErrorText == <<CROSS, " ", "E", "r", "r", "o", "r", " ", "o", "c", "c", "u", "r", "r", "e", "d", ":", " ">> \o <<"S", "i", "m", "u", "l", "a", "t", "e", "d", " ", "e", "r", "r", "o", "r", " ", "d", "u", "r", "i", "n", "g", " ", "p", "r", "o", "c", "e", "s", "s", "i", "n", "g">>

ErrorBanner ==
    /\ Running("demo_error_handling")
    /\ Out("main", <<PyPrint(<<NL, "=", "=", "=", " ", "E", "r", "r", "o", "r", " ", "H", "a", "n", "d", "l", "i", "n", "g", " ", "D", "e", "m", "o", " ", "=", "=", "=">>),
                     PyPrint(<<"S", "t", "a", "r", "t", "i", "n", "g", " ", "r", "i", "s", "k", "y", " ", "o", "p", "e", "r", "a", "t", "i", "o", "n", ".", ".", ".">>)>>)
    /\ i' = 0
    /\ pc' = "risky"
    /\ UNCHANGED <<idx, style, events, tstate, ti, stop, joined, taskWrites>>

\* a loop that raises at i == 2 before the progress write
RiskyLoop_RaiseFirst ==
    /\ pc = "risky"
    /\ IF i < 5
       THEN /\ IF i = 2 THEN UNCHANGED <<term, log>>
                        ELSE Out("main", <<WriteWithFlush(StepText(i))>>)
            /\ pc' = IF i = 2 THEN "risky_except" ELSE pc
            /\ i' = IF i = 2 THEN i ELSE i + 1
            /\ UNCHANGED <<style, events>>
       ELSE /\ Out("main", <<WriteWithFlush(SuccessText)>>)
            /\ Return
    /\ UNCHANGED <<idx, tstate, ti, stop, joined, taskWrites>>

\* for i in range(5): the progress write, then raise RuntimeError if i == 2;
\* after the loop the success message
RiskyLoop ==
    /\ pc = "risky"
    /\ IF i < 5
       THEN /\ Out("main", <<WriteWithFlush(StepText(i))>>)
            /\ pc' = IF i = 2 THEN "risky_except" ELSE pc
            /\ i' = IF i = 2 THEN i ELSE i + 1
            /\ UNCHANGED <<style, events>>
       ELSE /\ Out("main", <<WriteWithFlush(SuccessText)>>)
            /\ Return
    /\ UNCHANGED <<idx, tstate, ti, stop, joined, taskWrites>>

\* except Exception as e
RiskyExcept ==
    /\ pc = "risky_except"
    /\ Out("main", <<ClearLineText,
                     PyPrint(ErrorText),
                     PyPrint(<<"C", "o", "n", "s", "o", "l", "e", " ", "s", "t", "a", "t", "e", " ", "c", "l", "e", "a", "n", "e", "d", " ", "u", "p", " ", "p", "r", "o", "p", "e", "r", "l", "y", ".">>)>>)
    /\ Return
    /\ UNCHANGED <<idx, tstate, ti, stop, joined, taskWrites>>

-----------------------------------------------------------------------------
(* The driver under faults *)

NumFaults == Cardinality({k \in 1..Len(events) : events[k][1] \in {"raise", "interrupt"}})

\* the places of the main flow inside a demo call
InDemo == pc = "call" \/ pc \in ThreadedPcs

\* the places of demo_threaded_animation whose statement can raise an
\* Exception (a write to the stream, the start of a thread)
RaisePcs == {"call", "thread_start", "work_print", "work_print_end",
             "thread_clear", "thread_done"}

\* a demo other than the threaded one runs to its end
DemoReturns ==
    /\ pc = "call"
    /\ demos[idx] # "demo_threaded_animation"
    /\ Return
    /\ UNCHANGED <<idx, term, log, tstate, ti, stop, joined, taskWrites>>

\* the running demo raises an Exception, which reaches main()
RaiseException ==
    /\ pc \in RaisePcs
    /\ NumFaults < MaxFaults
    /\ events' = Append(events, <<"raise", idx>>)
    /\ pc' = "except_exception"
    /\ i' = 0
    /\ style' = 0
    /\ UNCHANGED <<idx, term, log, tstate, ti, stop, joined, taskWrites>>

\* KeyboardInterrupt is raised in the main flow while a demo runs
RaiseInterrupt ==
    /\ InDemo
    /\ NumFaults < MaxFaults
    /\ events' = Append(events, <<"interrupt", idx>>)
    /\ pc' = "except_interrupt"
    /\ i' = 0
    /\ style' = 0
    /\ UNCHANGED <<idx, term, log, tstate, ti, stop, joined, taskWrites>>

Animate == AnimateCheck \/ AnimateWrite \/ AnimateExit

Threaded ==
    \/ ThreadedBanner \/ ThreadStart \/ WorkPrint \/ WorkPrintEnd \/ WorkSleep
    \/ StopSet \/ Join \/ ThreadedClear \/ ThreadedDone

Driver == MainBanner \/ ForNext \/ ForExit \/ FinalBanner

Next ==
    \/ Driver \/ ExceptKeyboardInterrupt \/ ExceptException
    \/ DemoReturns \/ RaiseException \/ RaiseInterrupt
    \/ Threaded \/ Animate

Spec == Init /\ [][Next]_vars

NextTerm ==
    \/ Driver
    \/ DemoBasicWrite
    \/ FlushBanner \/ FlushWithout \/ FlushBetween \/ FlushWith \/ FlushDone
    \/ CountdownBanner \/ CountdownStep \/ CountdownDone
    \/ LoadingBanner \/ LoadingStep \/ LoadingDone
    \/ ProgressBanner \/ ProgressStep \/ ProgressDone
    \/ MultiBanner \/ MultiUpdate \/ MultiDone
    \/ BackspaceBanner \/ TypeChar \/ BackspaceBetween \/ EraseChar \/ BackspaceDone
    \/ Threaded \/ Animate
    \/ AdvancedBanner \/ StyleBegin \/ StyleStep \/ StyleDone \/ AdvancedDone
    \/ ErrorBanner \/ RiskyLoop \/ RiskyExcept

SpecTerm == Init /\ [][NextTerm]_vars

-----------------------------------------------------------------------------
(* Properties *)

Last(s) == s[Len(s)]

Texts == [k \in 1..Len(log) |-> log[k].text]

Count(text, ch) == Cardinality({k \in 1..Len(text) : text[k] = ch})

IsCall(e) == e[1] = "call"

Interrupted == \E p \in 1..Len(events) : events[p][1] = "interrupt"

\* the running (or last run) demo is `name` and has returned to the driver
Returned(name) ==
    /\ idx > 0
    /\ demos[idx] = name
    /\ events # <<>>
    /\ \E p \in 1..Len(events) : events[p] = <<"return", idx>>

\* C1: an Exception that a demo raises is reported by the driver, which then
\* calls the next demo of the list; the demos are called in the order of the
\* list, once each, and a run that is not interrupted calls all of them.
C1_ErrorIsolation ==
    /\ \A p \in 1..Len(events) :
          events[p][1] = "raise" =>
             /\ p < Len(events) => events[p + 1] = <<"report", events[p][2]>>
             /\ p + 1 < Len(events) =>
                   events[p + 2] = IF events[p][2] < NDemos
                                   THEN <<"call", events[p][2] + 1>>
                                   ELSE <<"final", NDemos>>
    /\ LET calls == SelectSeq(events, IsCall)
       IN /\ calls = [k \in 1..Len(calls) |-> <<"call", k>>]
          /\ pc = "done" /\ ~Interrupted => Len(calls) = NDemos

C1_Witness ==
    /\ pc = "done"
    /\ ~Interrupted
    /\ \E p \in 1..Len(events) : events[p] = <<"raise", 3>>
    /\ \E p \in 1..Len(events) : events[p] = <<"call", NDemos>>

\* C2: after KeyboardInterrupt is raised while demo k runs, the next thing the
\* driver does is print the notice, and no demo is called afterwards; the
\* demos before k were each called, and the run ends with the final banner.
C2_InterruptAborts ==
    \A p \in 1..Len(events) :
       events[p][1] = "interrupt" =>
          /\ p < Len(events) => events[p + 1] = <<"notice", events[p][2]>>
          /\ \A q \in (p + 1)..Len(events) : events[q][1] # "call"
          /\ \A k \in 1..events[p][2] : \E q \in 1..(p - 1) : events[q] = <<"call", k>>
          /\ pc = "done" => Last(events) = <<"final", events[p][2]>>

C2_Witness ==
    /\ pc = "done"
    /\ \E p \in 1..Len(events) : events[p] = <<"interrupt", 4>>

\* C3: whenever the main flow is outside demo_threaded_animation (in the
\* driver's loop, in a handler, at the final banner, in another demo), the
\* animation thread is not alive.
C3_ThreadEndedOutsideDemo ==
    pc \notin ThreadedPcs => tstate \in {"none", "dead"}

\* C4: from the start of the animation thread to the return of join, no step
\* of the main flow writes to the terminal.
C4_OneWriter ==
    [][(tstate # "none" /\ ~joined) =>
          ~(Len(log') > Len(log) /\ Last(log').by = "main")]_vars

\* C5: once join has returned, the animation thread writes nothing more: its
\* count of writes stays as it is and no write of the task is recorded.
C5_NoWriteAfterJoin ==
    [][joined =>
          /\ taskWrites' = taskWrites
          /\ ~(Len(log') > Len(log) /\ Last(log').by = "task")]_vars

C5_Witness ==
    /\ joined
    /\ pc = "thread_done"
    /\ taskWrites > 0
    /\ Last(log).text = ClearLineText

\* C6 as stated: the error-handling demo writes the progress of iterations
\* 0 and 1 only, then the line-clear, then the error message, and returns.
C6_ProgressBeforeFailureOnly ==
    Returned("demo_error_handling") =>
       /\ Len(Texts) >= 6
       /\ SubSeq(Texts, 3, 6) = <<StepText(0), StepText(1), ClearLineText, PyPrint(ErrorText)>>
       /\ \A k \in 1..Len(Texts) : Texts[k] \notin {StepText(2), StepText(3), StepText(4), SuccessText}

\* C6 amended: the error-handling demo writes the progress of iterations 0, 1
\* and 2 (the write of iteration 2 precedes the failure), then the line-clear,
\* then the error message; it never writes the progress of iteration 3 or 4
\* nor the success message, and it returns to the driver without raising.
C6_ProgressUpToFailure ==
    /\ (idx > 0 /\ demos[idx] = "demo_error_handling") =>
          /\ \A k \in 1..Len(Texts) : Texts[k] \notin {StepText(3), StepText(4), SuccessText}
          /\ pc # "except_exception"
          /\ \A p \in 1..Len(events) : events[p] # <<"raise", idx>>
    /\ Returned("demo_error_handling") =>
          /\ Len(Texts) >= 7
          /\ SubSeq(Texts, 3, 7) = <<StepText(0), StepText(1), StepText(2),
                                    ClearLineText, PyPrint(ErrorText)>>

C6_Witness ==
    /\ Returned("demo_error_handling")
    /\ pc = "done"
    /\ Texts[5] = StepText(2)

\* the row the typing loop of demo_backspace writes on: the one below the
\* line "Typing effect:"
TypingRow ==
    1 + CHOOSE r \in 1..Len(term.screen) : term.screen[r] = <<"T", "y", "p", "i", "n", "g", " ", "e", "f", "f", "e", "c", "t", ":">>

\* C7: the backspace demo makes one single-character write per character of
\* the message, later one erase sequence per character, and when it returns
\* every cell written during typing is blank.
C7_TypedThenErased ==
    Returned("demo_backspace") =>
       LET n == Len(message) IN
       /\ Len(Texts) = 2 * n + 5
       /\ \A k \in 1..n : Texts[2 + k] = <<message[k]>>
       /\ \A k \in 1..n : Texts[4 + n + k] = <<BS, BLANK, BS>>
       /\ Visible(term.screen[TypingRow]) = <<>>

\* C8: every frame of the progress bar holds floor(bar_width * n / total)
\* solid glyphs and as many empty glyphs as make bar_width together; the
\* number of solid glyphs never decreases, is 0 in the first frame and
\* bar_width in the last.
C8_BarWidths ==
    pc = "progress" =>
       \A n \in 0..(i - 1) :
          LET frame == Texts[3 + n] IN
          /\ Count(frame, FULL) = (bar_width * n) \div total
          /\ Count(frame, FULL) + Count(frame, LIGHT) = bar_width
          /\ Count(frame, FULL) = FilledWidth(n)
          /\ n > 0 => Count(Texts[2 + n], FULL) <= Count(frame, FULL)
          /\ n = 0 => Count(frame, FULL) = 0
          /\ n = total => Count(frame, FULL) = bar_width

C8_Witness ==
    /\ pc = "progress"
    /\ i = total + 1
    /\ Count(Last(Texts), FULL) = bar_width

\* the writes that replace an animation line with a completion message or a
\* cleared line
Replacing(text) ==
    \/ text \in {ClearLineText, CountdownFinal, LoadingFinal, SuccessText}
    \/ \E s \in 1..Len(animations) : text = StyleFinal(s)

\* the number of characters of a text between its leading carriage return and
\* its next carriage return or line feed
Cover(text) ==
    LET ends == {k \in 2..Len(text) : text[k] \in {CR, NL}}
    IN (CHOOSE k \in ends : \A j \in ends : k <= j) - 2

\* C9: a write that replaces an animation line covers at least as many
\* columns as the line holds when the write is made.
C9_ReplacementCovers ==
    [][(Len(log') > Len(log) /\ Replacing(log'[Len(log) + 1].text)) =>
          /\ Cover(log'[Len(log) + 1].text) >= Extent(CurrentLine(term))]_vars

C9_Witness ==
    /\ pc = "thread_done"
    /\ Last(log).text = ClearLineText
    /\ log[Len(log) - 1].by = "task"
    /\ Extent(CurrentLine(term)) = 0

\* C10: after the write for each counter value c of the countdown, the line
\* shows exactly "Countdown: c".
C10_CountdownShows ==
    (pc = "countdown" /\ i < 10) =>
       Visible(CurrentLine(term)) = <<"C", "o", "u", "n", "t", "d", "o", "w", "n", ":", " ">> \o Str(i + 1)

=============================================================================
